---- MODULE Spec2Model ----
(***************************************************************************)
(* Model of cmd/data-usage.go: the cross-shard prefix aggregation          *)
(* (loadPrefixUsageFromBackend), the report ingestion loop                 *)
(* (storeDataUsageInBackend) and the report load with its schema           *)
(* migrations (loadDataUsageFromBackend).                                  *)
(*                                                                         *)
(* Strings are sequences of tokens: a name ("b", "x"), the separator "/"   *)
(* or the directory marker suffix.  "b/x" is <<"b", "/", "x">>.            *)
(***************************************************************************)
EXTENDS Integers, Sequences, FiniteSets, TLC

VARIABLES
    \* ---- loadPrefixUsageFromBackend ----
    objAPI,      \* concrete type of the object layer
    bucket,      \* the bucket argument
    snap,        \* shard -> what is stored at <bucket>/.usage-cache.bin
    ctxDone,     \* the caller's context has been cancelled
    aggPc,       \* "idle", "loop", "done"
    poolIdx,     \* index into z.serverPools
    setIdx,      \* index into pool.sets
    cache,       \* the dataUsageCache reused across iterations
    m,           \* the running prefix -> size mapping
    aggRet,      \* returned (mapping, error) once aggPc = "done"
    loadRes,     \* history: shard -> error of its cache.load ("unvisited" before)
    visitLog,    \* history: shards in the order their load was attempted
    \* ---- storeDataUsageInBackend ----
    dui,           \* the reports buffered in the channel
    duiClosed,     \* the channel has been closed
    sentLog,       \* history: the reports sent on the channel
    ingPc,         \* "recv", "marshal", "reader", "put", "exit"
    dataUsageInfo, \* the loop variable: the report being handled
    dataUsageJSON, \* the serialization of the report being handled
    storeCtxDone,  \* the ingestion's context has been cancelled
    storeLog,      \* history: one entry per run of the loop body reaching an end
    putLog,        \* history: the payload of every PutObject call
    logged,        \* the errors passed to logger.LogIf that were not nil
    \* ---- the object layer ----
    metaBucketExists, \* the reserved metadata bucket exists
    obj,              \* what is stored under dataUsageBucket/dataUsageObjName
    \* ---- loadDataUsageFromBackend ----
    replCfg,     \* bucket -> its replication configuration, or the lookup's failure
    loadRet,     \* returned (report, error) of the last call
    loadRead,    \* history: the error GetObjectNInfo returned to the last call
    loadSeq,     \* history: the length of storeLog when the last call read
    cfgLookups   \* history: the buckets the last call looked the configuration up for

aggVars == <<objAPI, bucket, snap, ctxDone, aggPc, poolIdx, setIdx, cache, m,
             aggRet, loadRes, visitLog>>

ingVars == <<dui, duiClosed, sentLog, ingPc, dataUsageInfo, dataUsageJSON,
             storeCtxDone, storeLog, putLog, logged>>

objVars == <<metaBucketExists, obj>>

loadVars == <<replCfg, loadRet, loadRead, loadSeq, cfgLookups>>

vars == <<aggVars, ingVars, objVars, loadVars>>

-----------------------------------------------------------------------------
(* Bounds *)

\* number of server pools of the deployment
NumPools == 2
\* number of reports the scanner sends before it stops
MaxReports == 3
\* capacity of the channel the reports arrive on
ChanCap == 1

-----------------------------------------------------------------------------
(* Constants of the program *)

slashSeparator == "/"
dataUsageCacheName == ".usage-cache.bin"
\* suffix that marks an encoded directory object
globalDirSuffix == "__XLDIR__"

Buckets == {"b", "c"}
OtherBucket(bk) == IF bk = "b" THEN "c" ELSE "b"

\* pool.sets of pool p: the first pool has two erasure sets, the others one
SetsInPool(p) == IF p = 1 THEN 2 ELSE 1
Shards == {<<p, s>> : p \in 1..NumPools, s \in 1..2} \cap
          {sh \in (1..NumPools) \X (1..2) : sh[2] <= SetsInPool(sh[1])}

\* the shards in the order of the nested range loops
RECURSIVE ShardOrderFrom(_, _)
ShardOrderFrom(p, s) ==
    IF p > NumPools THEN << >>
    ELSE IF s > SetsInPool(p) THEN ShardOrderFrom(p + 1, 1)
    ELSE <<(<<p, s>>)>> \o ShardOrderFrom(p, s + 1)
ShardOrder == ShardOrderFrom(1, 1)

-----------------------------------------------------------------------------
(* Strings *)

HasPrefix(s, p) == Len(s) >= Len(p) /\ SubSeq(s, 1, Len(p)) = p

\* strings.TrimPrefix: s without the leading p, s itself when p is no prefix
TrimPrefix(s, p) == IF HasPrefix(s, p) THEN SubSeq(s, Len(p) + 1, Len(s)) ELSE s

\* decodeDirObject: a directory marker is decoded to the directory it stands
\* for: "x__XLDIR__" is "x/", and "x__XLDIR__/y" is "x/y"
RECURSIVE decodeDirObject(_)
decodeDirObject(s) ==
    IF s = << >> THEN << >>
    ELSE IF Head(s) = globalDirSuffix
         THEN IF Len(s) >= 2 /\ s[2] = slashSeparator
              THEN decodeDirObject(Tail(s))
              ELSE <<slashSeparator>> \o decodeDirObject(Tail(s))
         ELSE <<Head(s)>> \o decodeDirObject(Tail(s))

-----------------------------------------------------------------------------
(* dataUsageCache: the per-shard usage tree *)

Entry(size, children) == [Size |-> size, Children |-> children]

\* dataUsageCache{}
EmptyCache == [Cache |-> << >>]

P1(bk, a) == <<bk, "/", a>>
P2(bk, a, b) == <<bk, "/", a, "/", b>>

\* shard A of the example: {bucket/x: 100, bucket/y: 50}
TreeA(bk) == [Cache |->
    (<<bk>> :> Entry(150, {P1(bk, "x"), P1(bk, "y")})) @@
    (P1(bk, "x") :> Entry(100, {})) @@
    (P1(bk, "y") :> Entry(50, {}))]

\* shard B of the example: {bucket/x: 20}
TreeB(bk) == [Cache |->
    (<<bk>> :> Entry(20, {P1(bk, "x")})) @@
    (P1(bk, "x") :> Entry(20, {}))]

\* a directory named like the bucket, with a child, and a directory object
TreeC(bk) == [Cache |->
    (<<bk>> :> Entry(10, {P1(bk, bk), <<bk, "/", "x", globalDirSuffix>>})) @@
    (P1(bk, bk) :> Entry(7, {P2(bk, bk, "x")})) @@
    (P2(bk, bk, "x") :> Entry(7, {})) @@
    (<<bk, "/", "x", globalDirSuffix>> :> Entry(3, {}))]

\* a tree that records another bucket only: no root for bk
TreeOther(bk) == [Cache |->
    (<<OtherBucket(bk)>> :> Entry(5, {P1(OtherBucket(bk), "x")})) @@
    (P1(OtherBucket(bk), "x") :> Entry(5, {}))]

Trees(bk) == {TreeA(bk), TreeB(bk), TreeC(bk), TreeOther(bk)}

\* what a shard may hold at the snapshot path: nothing, undecodable bytes, a tree
Absent == [kind |-> "absent"]
Corrupt == [kind |-> "corrupt"]
Stored(t) == [kind |-> "tree", tree |-> t]
Snapshots(bk) == {Absent, Corrupt} \cup {Stored(t) : t \in Trees(bk)}

\* cache.load: the error it returns for what the shard holds.  A read under a
\* cancelled context may abort; a missing snapshot is no error.
LoadErrs(stored, cancelled) ==
    (IF cancelled THEN {"canceled"} ELSE {}) \cup
    {CASE stored.kind = "absent" -> "nil"
       [] stored.kind = "corrupt" -> "decode"
       [] OTHER -> "nil"}

\* cache.load: the receiver after the call.  A loaded tree replaces it, a
\* missing snapshot leaves the empty cache, a failed load leaves it alone.
LoadCache(old, stored, err) ==
    IF err # "nil" THEN old
    ELSE IF stored.kind = "tree" THEN stored.tree
    ELSE EmptyCache

NoEntry == [none |-> TRUE]

\* cache.find: the entry of the bucket's root, or nil
find(c, bk) == IF <<bk>> \in DOMAIN c.Cache THEN c.Cache[<<bk>>] ELSE NoEntry

\* every descendant of the entries `ids`
RECURSIVE Descendants(_, _)
Descendants(c, ids) ==
    LET known == {id \in ids : id \in DOMAIN c.Cache}
        next == UNION {c.Cache[id].Children : id \in known}
    IN IF next = {} THEN {} ELSE next \cup Descendants(c, next)

\* cache.flattenChildrens: one entry per descendant of root, under its own
\* identifier and with its own recorded statistics
flattenChildrens(c, root) ==
    LET ds == {id \in Descendants(c, root.Children) \cup root.Children :
                  id \in DOMAIN c.Cache}
    IN [id \in ds |-> c.Cache[id]]

-----------------------------------------------------------------------------
(* loadPrefixUsageFromBackend *)

\* faulty variant: the type assertion always succeeds
AnyObjectLayer(api) == TRUE

\* line 65: z, ok := objAPI.(*erasureServerPools)
IsErasureServerPools(api) == api = "erasureServerPools"

\* faulty variant: the bucket prefix is not stripped
PrefixOfUntrimmed(id, bk) == decodeDirObject(id)

\* line 86: the key of an identifier
PrefixOf(id, bk) == decodeDirObject(TrimPrefix(id, <<bk, slashSeparator>>))

\* faulty variant: the size is assigned, not added
AddSizeOverwrite(mm, prefix, size) ==
    IF prefix \in DOMAIN mm THEN [mm EXCEPT ![prefix] = size]
    ELSE mm @@ (prefix :> size)

\* line 88: m[prefix] += uint64(usageInfo.Size); the sizes recorded here are
\* non-negative and their sums stay far below 2^64, so nothing wraps
AddSize(mm, prefix, size) ==
    IF prefix \in DOMAIN mm THEN [mm EXCEPT ![prefix] = @ + size]
    ELSE mm @@ (prefix :> size)

\* lines 85-89: the range loop over the flattened entries
RECURSIVE AddAll(_, _, _, _)
AddAll(mm, flat, ids, bk) ==
    IF ids = {} THEN mm
    ELSE LET id == CHOOSE i \in ids : TRUE
         IN AddAll(AddSize(mm, PrefixOf(id, bk), flat[id].Size), flat,
                   ids \ {id}, bk)

\* faulty variant: load's error is ignored
LoadSucceededAlways(err) == TRUE

\* line 77: the body of the if runs only when load returned no error
LoadSucceeded(err) == err = "nil"

\* lines 77-90: the mapping after one shard, given load's error and the cache
AfterShard(mm, c, err, bk) ==
    IF LoadSucceeded(err)
    THEN LET root == find(c, bk)
         IN IF root = NoEntry THEN mm
            ELSE LET flat == flattenChildrens(c, root)
                 IN AddAll(mm, flat, DOMAIN flat, bk)
    ELSE mm

AggInit ==
    /\ objAPI \in {"erasureServerPools", "FSObjects"}
    /\ bucket \in Buckets
    /\ snap \in [Shards -> Snapshots(bucket)]
    /\ ctxDone = FALSE
    /\ aggPc = "idle"
    /\ poolIdx = 0
    /\ setIdx = 0
    /\ cache = EmptyCache
    /\ m = << >>
    /\ aggRet = [set |-> FALSE]
    /\ loadRes = [sh \in Shards |-> "unvisited"]
    /\ visitLog = << >>

\* lines 64-73: the call, up to the first iteration
AggCall ==
    /\ aggPc = "idle"
    /\ IF ~IsErasureServerPools(objAPI)
       THEN /\ aggPc' = "done"
            /\ aggRet' = [set |-> TRUE, m |-> << >>, err |-> "nil"]
            /\ UNCHANGED <<poolIdx, setIdx, cache, m>>
       ELSE /\ aggPc' = "loop"
            /\ cache' = EmptyCache
            /\ m' = << >>
            /\ poolIdx' = 1
            /\ setIdx' = 1
            /\ aggRet' = aggRet
    /\ UNCHANGED <<objAPI, bucket, snap, ctxDone, loadRes, visitLog>>
    /\ UNCHANGED <<ingVars, objVars, loadVars>>

\* lines 75-91: one iteration of the inner loop, for the erasure set
\* serverPools[poolIdx].sets[setIdx]
AggVisit ==
    /\ aggPc = "loop"
    /\ poolIdx <= NumPools
    /\ setIdx <= SetsInPool(poolIdx)
    /\ LET er == <<poolIdx, setIdx>>
       IN \E err \in LoadErrs(snap[er], ctxDone) :
            LET c == LoadCache(cache, snap[er], err)
            IN /\ cache' = c
               /\ m' = AfterShard(m, c, err, bucket)
               /\ loadRes' = [loadRes EXCEPT ![er] = err]
               /\ visitLog' = Append(visitLog, er)
    /\ setIdx' = setIdx + 1
    /\ UNCHANGED <<objAPI, bucket, snap, ctxDone, aggPc, poolIdx, aggRet>>
    /\ UNCHANGED <<ingVars, objVars, loadVars>>

\* line 74: the inner loop is over, the outer loop takes the next pool
AggNextPool ==
    /\ aggPc = "loop"
    /\ poolIdx <= NumPools
    /\ setIdx > SetsInPool(poolIdx)
    /\ poolIdx' = poolIdx + 1
    /\ setIdx' = 1
    /\ UNCHANGED <<objAPI, bucket, snap, ctxDone, aggPc, cache, m, aggRet,
                   loadRes, visitLog>>
    /\ UNCHANGED <<ingVars, objVars, loadVars>>

\* line 94: return m, nil
AggReturn ==
    /\ aggPc = "loop"
    /\ poolIdx > NumPools
    /\ aggPc' = "done"
    /\ aggRet' = [set |-> TRUE, m |-> m, err |-> "nil"]
    /\ UNCHANGED <<objAPI, bucket, snap, ctxDone, poolIdx, setIdx, cache, m,
                   loadRes, visitLog>>
    /\ UNCHANGED <<ingVars, objVars, loadVars>>

\* the caller cancels the context while the call is running
CtxCancel ==
    /\ aggPc = "loop"
    /\ ~ctxDone
    /\ ctxDone' = TRUE
    /\ UNCHANGED <<objAPI, bucket, snap, aggPc, poolIdx, setIdx, cache, m,
                   aggRet, loadRes, visitLog>>
    /\ UNCHANGED <<ingVars, objVars, loadVars>>

AggNext == AggCall \/ AggVisit \/ AggNextPool \/ AggReturn \/ CtxCancel

\* the aggregation is not running
AggIdle ==
    /\ objAPI = "FSObjects"
    /\ bucket = "b"
    /\ snap = [sh \in Shards |-> Absent]
    /\ ctxDone = FALSE
    /\ aggPc = "idle"
    /\ poolIdx = 0
    /\ setIdx = 0
    /\ cache = EmptyCache
    /\ m = << >>
    /\ aggRet = [set |-> FALSE]
    /\ loadRes = [sh \in Shards |-> "unvisited"]
    /\ visitLog = << >>

-----------------------------------------------------------------------------
(* DataUsageInfo and its serialization *)

\* BucketUsageInfo{}
ZeroBucketUsage ==
    [Size |-> 0, ObjectsCount |-> 0,
     ReplicationPendingSizeV1 |-> 0, ReplicationFailedSizeV1 |-> 0,
     ReplicatedSizeV1 |-> 0, ReplicationPendingCountV1 |-> 0,
     ReplicationFailedCountV1 |-> 0]

\* DataUsageInfo{}
ZeroReport ==
    [LastUpdate |-> 0, ObjectsTotalSize |-> 0, BucketsUsage |-> << >>,
     BucketSizes |-> << >>, ReplicationInfo |-> << >>]

\* the contents the scanner reports: the per-bucket usage in the newer
\* representation, or in the legacy one
NewerContent ==
    [ObjectsTotalSize |-> 30,
     BucketsUsage |-> ("b" :> [ZeroBucketUsage EXCEPT !.Size = 10, !.ObjectsCount = 1]) @@
                      ("c" :> [ZeroBucketUsage EXCEPT !.Size = 20, !.ObjectsCount = 2]),
     BucketSizes |-> << >>, ReplicationInfo |-> << >>]
LegacyContent ==
    [ObjectsTotalSize |-> 10, BucketsUsage |-> << >>,
     BucketSizes |-> ("b" :> 10), ReplicationInfo |-> << >>]
IngestContents == {NewerContent, LegacyContent}

\* the report with content c that the scanner produces at time t
ReportAt(c, t) ==
    [LastUpdate |-> t, ObjectsTotalSize |-> c.ObjectsTotalSize,
     BucketsUsage |-> c.BucketsUsage, BucketSizes |-> c.BucketSizes,
     ReplicationInfo |-> c.ReplicationInfo]

\* line 44: json.Marshal(dataUsageInfo): the document, keyed by the JSON names
Marshal(r) ==
    [lastUpdate |-> r.LastUpdate, objectsTotalSize |-> r.ObjectsTotalSize,
     bucketsUsageInfo |-> r.BucketsUsage, bucketsSizes |-> r.BucketSizes,
     objectsReplicationInfo |-> r.ReplicationInfo]

\* line 109: json.NewDecoder(r).Decode(&dataUsageInfo)
Decode(doc) ==
    [LastUpdate |-> doc.lastUpdate, ObjectsTotalSize |-> doc.objectsTotalSize,
     BucketsUsage |-> doc.bucketsUsageInfo, BucketSizes |-> doc.bucketsSizes,
     ReplicationInfo |-> doc.objectsReplicationInfo]

\* what the report object may be: missing, a document, undecodable bytes
NoObject == [kind |-> "none"]
Garbage == [kind |-> "garbage"]
Bytes(doc) == [kind |-> "json", doc |-> doc]

-----------------------------------------------------------------------------
(* The object layer *)

\* PutObject: the errors it may return.  Without the bucket it is bucket not
\* found; otherwise the write succeeds or fails, and may abort when the
\* context is cancelled.
PutErrs(bucketExists, cancelled) ==
    IF ~bucketExists THEN {"BucketNotFound"}
    ELSE {"nil", "WriteFailed"} \cup (IF cancelled THEN {"canceled"} ELSE {})

\* PutObject: the object afterwards.  A successful write replaces the object
\* as a whole, a failed one leaves it as it was.
PutResult(old, payload, err) == IF err = "nil" THEN Bytes(payload) ELSE old

-----------------------------------------------------------------------------
(* storeDataUsageInBackend *)

\* faulty variant: the loop ends as soon as the channel is closed
RangeEndsOnClose(ch, closed) == closed

\* line 42: the range loop ends when the channel is closed and drained
RangeEnds(ch, closed) == closed /\ ch = << >>

\* faulty variant: a failed preparation ends the function
AfterPrepareErrorFatal == "exit"

\* faulty variant: a failed preparation falls through to the write
AfterPrepareErrorProceed == "put"

\* lines 47 and 53: continue
AfterPrepareError == "recv"

\* faulty variant: a failed write is tried again
AfterPutRetry(err) == IF err \in {"nil", "BucketNotFound"} THEN "recv" ELSE "put"

\* line 59: the end of the loop body, whatever PutObject returned
AfterPut(err) == "recv"

isErrBucketNotFound(err) == err = "BucketNotFound"

\* lines 56-58: logger.LogIf is called unless the error is bucket not found,
\* and logs nothing for a nil error
PutLogged(err) == ~isErrBucketNotFound(err) /\ err # "nil"

IngInit ==
    /\ dui = << >>
    /\ duiClosed = FALSE
    /\ sentLog = << >>
    /\ ingPc = "recv"
    /\ dataUsageInfo = ZeroReport
    /\ dataUsageJSON = Marshal(ZeroReport)
    /\ storeCtxDone = FALSE
    /\ storeLog = << >>
    /\ putLog = << >>
    /\ logged = << >>

\* the scanner sends its next report
Send ==
    /\ ~duiClosed
    /\ Len(sentLog) < MaxReports
    /\ Len(dui) < ChanCap
    /\ \E c \in IngestContents :
         LET r == ReportAt(c, Len(sentLog) + 1)
         IN /\ dui' = Append(dui, r)
            /\ sentLog' = Append(sentLog, r)
    /\ UNCHANGED <<duiClosed, ingPc, dataUsageInfo, dataUsageJSON, storeCtxDone,
                   storeLog, putLog, logged>>
    /\ UNCHANGED <<aggVars, objVars, loadVars>>

\* the scanner closes the channel
Close ==
    /\ ~duiClosed
    /\ duiClosed' = TRUE
    /\ UNCHANGED <<dui, sentLog, ingPc, dataUsageInfo, dataUsageJSON,
                   storeCtxDone, storeLog, putLog, logged>>
    /\ UNCHANGED <<aggVars, objVars, loadVars>>

\* the context of the ingestion is cancelled
StoreCtxCancel ==
    /\ ingPc # "exit"
    /\ ~storeCtxDone
    /\ storeCtxDone' = TRUE
    /\ UNCHANGED <<dui, duiClosed, sentLog, ingPc, dataUsageInfo, dataUsageJSON,
                   storeLog, putLog, logged>>
    /\ UNCHANGED <<aggVars, objVars, loadVars>>

\* the reserved metadata bucket is created
MakeMetaBucket ==
    /\ ~metaBucketExists
    /\ metaBucketExists' = TRUE
    /\ UNCHANGED obj
    /\ UNCHANGED <<aggVars, ingVars, loadVars>>

\* line 42: the next report is received
IngRecv ==
    /\ ingPc = "recv"
    /\ dui # << >>
    /\ dataUsageInfo' = Head(dui)
    /\ dui' = Tail(dui)
    /\ ingPc' = "marshal"
    /\ UNCHANGED <<duiClosed, sentLog, dataUsageJSON, storeCtxDone, storeLog,
                   putLog, logged>>
    /\ UNCHANGED <<aggVars, objVars, loadVars>>

\* line 42 and 60: the loop ends and the function returns
IngExit ==
    /\ ingPc = "recv"
    /\ RangeEnds(dui, duiClosed)
    /\ ingPc' = "exit"
    /\ UNCHANGED <<dui, duiClosed, sentLog, dataUsageInfo, dataUsageJSON,
                   storeCtxDone, storeLog, putLog, logged>>
    /\ UNCHANGED <<aggVars, objVars, loadVars>>

\* lines 43-48: the report is serialized, or the failure is logged
IngMarshal ==
    /\ ingPc = "marshal"
    /\ \/ /\ dataUsageJSON' = Marshal(dataUsageInfo)
          /\ ingPc' = "reader"
          /\ UNCHANGED <<storeLog, logged>>
       \/ /\ logged' = Append(logged, "MarshalFailed")
          /\ storeLog' = Append(storeLog, [report |-> dataUsageInfo, res |-> "MarshalFailed"])
          /\ ingPc' = AfterPrepareError
          /\ UNCHANGED dataUsageJSON
    /\ UNCHANGED <<dui, duiClosed, sentLog, dataUsageInfo, storeCtxDone, putLog>>
    /\ UNCHANGED <<aggVars, objVars, loadVars>>

\* lines 49-54: the reader over the serialization is built, or the failure
\* is logged
IngNewReader ==
    /\ ingPc = "reader"
    /\ \/ /\ ingPc' = "put"
          /\ UNCHANGED <<storeLog, logged>>
       \/ /\ logged' = Append(logged, "NewReaderFailed")
          /\ storeLog' = Append(storeLog, [report |-> dataUsageInfo, res |-> "NewReaderFailed"])
          /\ ingPc' = AfterPrepareError
    /\ UNCHANGED <<dui, duiClosed, sentLog, dataUsageInfo, dataUsageJSON,
                   storeCtxDone, putLog>>
    /\ UNCHANGED <<aggVars, objVars, loadVars>>

\* lines 55-58: the serialization is written to the report object
IngPut ==
    /\ ingPc = "put"
    /\ \E err \in PutErrs(metaBucketExists, storeCtxDone) :
         /\ obj' = PutResult(obj, dataUsageJSON, err)
         /\ putLog' = Append(putLog, dataUsageJSON)
         /\ storeLog' = Append(storeLog, [report |-> dataUsageInfo, res |-> err])
         /\ logged' = IF PutLogged(err) THEN Append(logged, err) ELSE logged
         /\ ingPc' = AfterPut(err)
    /\ UNCHANGED <<dui, duiClosed, sentLog, dataUsageInfo, dataUsageJSON,
                   storeCtxDone, metaBucketExists>>
    /\ UNCHANGED <<aggVars, loadVars>>

Consumer == IngRecv \/ IngExit \/ IngMarshal \/ IngNewReader \/ IngPut

-----------------------------------------------------------------------------
(* loadDataUsageFromBackend *)

\* GetObjectNInfo: the errors it may return
ReadErrs(bucketExists, stored) ==
    IF ~bucketExists THEN {"BucketNotFound"}
    ELSE IF stored = NoObject THEN {"ObjectNotFound"}
    ELSE {"nil", "ReadFailed"}

isErrObjectNotFound(err) == err = "ObjectNotFound"

\* faulty variant: a missing bucket is not taken for absence
OnlyObjectNotFound(err) == isErrObjectNotFound(err)

\* line 100: the read errors that stand for absence
IsAbsence(err) == isErrObjectNotFound(err) \/ isErrBucketNotFound(err)

\* faulty variant: the entries are made without the size
ForwardCompatNoSize(info) ==
    IF DOMAIN info.BucketsUsage = {}
    THEN [info EXCEPT !.BucketsUsage =
             [b \in DOMAIN info.BucketSizes |-> ZeroBucketUsage]]
    ELSE info

\* faulty variant: BucketsUsage is made of BucketSizes though it is populated
ForwardCompatAlways(info) ==
    [info EXCEPT !.BucketsUsage =
        [b \in DOMAIN info.BucketSizes |->
            [ZeroBucketUsage EXCEPT !.Size = info.BucketSizes[b]]]]

\* lines 113-118: an empty BucketsUsage is filled from BucketSizes
ForwardCompat(info) ==
    IF DOMAIN info.BucketsUsage = {}
    THEN [info EXCEPT !.BucketsUsage =
             [b \in DOMAIN info.BucketSizes |->
                 [ZeroBucketUsage EXCEPT !.Size = info.BucketSizes[b]]]]
    ELSE info

\* faulty variant: the sizes are not copied
BackwardCompatZero(info) ==
    IF DOMAIN info.BucketSizes = {}
    THEN [info EXCEPT !.BucketSizes = [b \in DOMAIN info.BucketsUsage |-> 0]]
    ELSE info

\* lines 121-126: an empty BucketSizes is filled from BucketsUsage
BackwardCompat(info) ==
    IF DOMAIN info.BucketSizes = {}
    THEN [info EXCEPT !.BucketSizes =
             [b \in DOMAIN info.BucketsUsage |-> info.BucketsUsage[b].Size]]
    ELSE info

\* lines 129-130: the legacy counters that make a bucket migrate
HasLegacyCounters(bui) ==
    \/ bui.ReplicatedSizeV1 > 0
    \/ bui.ReplicationFailedCountV1 > 0
    \/ bui.ReplicationFailedSizeV1 > 0
    \/ bui.ReplicationPendingCountV1 > 0

\* lines 136-142: the per-target entry made of a bucket's legacy counters
TargetOf(bui) ==
    [ReplicationFailedSize |-> bui.ReplicationFailedSizeV1,
     ReplicationFailedCount |-> bui.ReplicationFailedCountV1,
     ReplicatedSize |-> bui.ReplicatedSizeV1,
     ReplicationPendingCount |-> bui.ReplicationPendingCountV1,
     ReplicationPendingSize |-> bui.ReplicationPendingSizeV1]

ConfigErr == [err |-> "ConfigLookupFailed"]

\* faulty variant: a bucket whose configuration lookup fails is skipped
RECURSIVE ReplicationLoopSkip(_, _, _, _)
ReplicationLoopSkip(info, order, cfg, seen) ==
    IF order = << >>
    THEN [report |-> info, err |-> "nil", lookups |-> seen]
    ELSE LET b == Head(order)
             bui == info.BucketsUsage[b]
         IN IF HasLegacyCounters(bui) /\ cfg[b] # ConfigErr
            THEN ReplicationLoopSkip(
                     [info EXCEPT !.ReplicationInfo =
                         (cfg[b].RoleArn :> TargetOf(bui))],
                     Tail(order), cfg, seen \cup {b})
            ELSE ReplicationLoopSkip(info, Tail(order), cfg,
                     IF HasLegacyCounters(bui) THEN seen \cup {b} ELSE seen)

\* faulty variant: a failed configuration lookup returns the report as far as
\* it was migrated
RECURSIVE ReplicationLoopPartial(_, _, _, _)
ReplicationLoopPartial(info, order, cfg, seen) ==
    IF order = << >>
    THEN [report |-> info, err |-> "nil", lookups |-> seen]
    ELSE LET b == Head(order)
             bui == info.BucketsUsage[b]
         IN IF HasLegacyCounters(bui)
            THEN IF cfg[b] = ConfigErr
                 THEN [report |-> info, err |-> "ConfigLookupFailed",
                       lookups |-> seen \cup {b}]
                 ELSE ReplicationLoopPartial(
                          [info EXCEPT !.ReplicationInfo =
                              (cfg[b].RoleArn :> TargetOf(bui))],
                          Tail(order), cfg, seen \cup {b})
            ELSE ReplicationLoopPartial(info, Tail(order), cfg, seen)

\* lines 128-144: the range loop over BucketsUsage, visiting the buckets in
\* the order `order`; the configurations looked up are collected in `seen`
RECURSIVE ReplicationLoop(_, _, _, _)
ReplicationLoop(info, order, cfg, seen) ==
    IF order = << >>
    THEN [report |-> info, err |-> "nil", lookups |-> seen]
    ELSE LET b == Head(order)
             bui == info.BucketsUsage[b]
         IN IF HasLegacyCounters(bui)
            THEN IF cfg[b] = ConfigErr
                 THEN [report |-> ZeroReport, err |-> "ConfigLookupFailed",
                       lookups |-> seen \cup {b}]
                 ELSE ReplicationLoop(
                          [info EXCEPT !.ReplicationInfo =
                              (cfg[b].RoleArn :> TargetOf(bui))],
                          Tail(order), cfg, seen \cup {b})
            ELSE ReplicationLoop(info, Tail(order), cfg, seen)

\* the orders in which a range loop may visit the keys of a map
RangeOrders(keys) ==
    {o \in [1..Cardinality(keys) -> keys] :
        \A i, j \in 1..Cardinality(keys) : i # j => o[i] # o[j]}

\* lines 107-145: the decoded report is migrated and returned
Migrate(info, cfg, order) ==
    ReplicationLoop(BackwardCompat(ForwardCompat(info)), order, cfg, {})

\* lines 97-146: what the call returns for the read error `err`
LoadOutcomes(err, stored, cfg) ==
    IF err # "nil"
    THEN IF IsAbsence(err)
         THEN {[report |-> ZeroReport, err |-> "nil", lookups |-> {}]}
         ELSE {[report |-> ZeroReport, err |-> err, lookups |-> {}]}
    ELSE IF stored.kind # "json"
         THEN {[report |-> ZeroReport, err |-> "DecodeFailed", lookups |-> {}]}
         ELSE LET info == BackwardCompat(ForwardCompat(Decode(stored.doc)))
              IN {Migrate(Decode(stored.doc), cfg, o) :
                     o \in RangeOrders(DOMAIN info.BucketsUsage)}

LoadInit ==
    /\ loadRet = [set |-> FALSE]
    /\ loadRead = "none"
    /\ loadSeq = 0
    /\ cfgLookups = {}

\* lines 97-146: one call of loadDataUsageFromBackend
LoadDataUsage ==
    /\ \E err \in ReadErrs(metaBucketExists, obj) :
         \E out \in LoadOutcomes(err, obj, replCfg) :
            /\ loadRet' = [set |-> TRUE, report |-> out.report, err |-> out.err]
            /\ cfgLookups' = out.lookups
            /\ loadRead' = err
    /\ loadSeq' = Len(storeLog)
    /\ UNCHANGED replCfg
    /\ UNCHANGED <<aggVars, ingVars, objVars>>

ARN(a) == [RoleArn |-> a]

\* the report object before the ingestion starts: none, or the report of an
\* earlier run
ObjInit ==
    /\ metaBucketExists \in BOOLEAN
    /\ obj \in {NoObject, Bytes(Marshal(ReportAt(LegacyContent, 0)))}
    /\ ~metaBucketExists => obj = NoObject

\* the replication configuration while the reports are ingested
IngestCfg == ("b" :> ARN("arn1")) @@ ("c" :> ARN("arn2"))

InitIngest == AggIdle /\ IngInit /\ ObjInit /\ LoadInit /\ replCfg = IngestCfg

\* the ingestion alone
NextStore == Send \/ Close \/ StoreCtxCancel \/ MakeMetaBucket \/ Consumer
SpecStore == InitIngest /\ [][NextStore]_vars

\* the consumer is a goroutine that runs whenever it can take a step, and
\* every call it makes returns
FairSpecStore == SpecStore /\ WF_vars(Consumer)

\* the ingestion, with loads of the report object at any time
NextIngest == NextStore \/ LoadDataUsage
SpecIngest == InitIngest /\ [][NextIngest]_vars

-----------------------------------------------------------------------------
(* The stored reports loadDataUsageFromBackend is checked on *)

\* a bucket without legacy replication counters, one with all of them set,
\* one with the pending size alone
PlainUsage == [ZeroBucketUsage EXCEPT !.Size = 10, !.ObjectsCount = 1]
ReplicatedUsage ==
    [ZeroBucketUsage EXCEPT !.Size = 20, !.ObjectsCount = 2,
        !.ReplicatedSizeV1 = 5, !.ReplicationFailedSizeV1 = 4,
        !.ReplicationFailedCountV1 = 1, !.ReplicationPendingSizeV1 = 3,
        !.ReplicationPendingCountV1 = 2]
PendingSizeUsage == [ZeroBucketUsage EXCEPT !.Size = 30, !.ReplicationPendingSizeV1 = 3]
BucketUsages == {PlainUsage, ReplicatedUsage, PendingSizeUsage}

StoredBucketsUsage ==
    {<< >>} \cup [{"b"} -> BucketUsages] \cup [{"b", "c"} -> BucketUsages]
StoredBucketSizes == {<< >>, "b" :> 10, ("b" :> 10) @@ ("c" :> 20)}
StoredTarget ==
    [ReplicationFailedSize |-> 1, ReplicationFailedCount |-> 1,
     ReplicatedSize |-> 9, ReplicationPendingCount |-> 0,
     ReplicationPendingSize |-> 0]
StoredReplicationInfo == {<< >>, "arn9" :> StoredTarget}

StoredReports ==
    {[LastUpdate |-> 1, ObjectsTotalSize |-> 60, BucketsUsage |-> bu,
      BucketSizes |-> bs, ReplicationInfo |-> ri] :
        bu \in StoredBucketsUsage, bs \in StoredBucketSizes,
        ri \in StoredReplicationInfo}

ReplicationConfigs == [{"b", "c"} -> {ARN("arn1"), ARN("arn2"), ConfigErr}]

InitLoad ==
    /\ AggIdle
    /\ IngInit
    /\ metaBucketExists \in BOOLEAN
    /\ obj \in {NoObject, Garbage} \cup {Bytes(Marshal(r)) : r \in StoredReports}
    /\ ~metaBucketExists => obj = NoObject
    /\ replCfg \in ReplicationConfigs
    /\ LoadInit
NextLoad == LoadDataUsage
SpecLoad == InitLoad /\ [][NextLoad]_vars

\* the ingestion is not running
IngIdle ==
    /\ IngInit
    /\ metaBucketExists = FALSE
    /\ obj = NoObject
    /\ LoadInit
    /\ replCfg = IngestCfg

Init == AggInit /\ IngIdle
Next == AggNext
Spec == Init /\ [][Next]_vars

-----------------------------------------------------------------------------
(* Properties of loadPrefixUsageFromBackend *)

Range(s) == {s[i] : i \in 1..Len(s)}

AggReturned == aggPc = "done" /\ aggRet.set
Sharded == IsErasureServerPools(objAPI)

HasRoot(stored, bk) == stored.kind = "tree" /\ <<bk>> \in DOMAIN stored.tree.Cache

\* the identifiers recorded under the bucket's root in what a shard holds
DescIds(stored, bk) ==
    IF HasRoot(stored, bk)
    THEN DOMAIN flattenChildrens(stored.tree, find(stored.tree, bk))
    ELSE {}

RECURSIVE SumSizes(_, _)
SumSizes(tree, ids) ==
    IF ids = {} THEN 0
    ELSE LET id == CHOOSE i \in ids : TRUE
         IN tree.Cache[id].Size + SumSizes(tree, ids \ {id})

HoldsPrefix(stored, bk, P) == \E id \in DescIds(stored, bk) : PrefixOf(id, bk) = P

\* the size a shard records for prefix P of the bucket, 0 when it lacks P
RecordedSize(stored, bk, P) ==
    IF HasRoot(stored, bk)
    THEN SumSizes(stored.tree, {id \in DescIds(stored, bk) : PrefixOf(id, bk) = P})
    ELSE 0

RECURSIVE SumShards(_, _, _)
SumShards(shs, bk, P) ==
    IF shs = {} THEN 0
    ELSE LET sh == CHOOSE x \in shs : TRUE
         IN RecordedSize(snap[sh], bk, P) + SumShards(shs \ {sh}, bk, P)

\* every key any candidate tree can give rise to
PrefixUniverse(bk) ==
    UNION {{PrefixOf(id, bk) : id \in DOMAIN t.Cache} : t \in Trees(bk)}

\* the shards whose load returned no error and whose tree has the bucket's root
Contributing == {sh \in Shards : loadRes[sh] = "nil" /\ HasRoot(snap[sh], bucket)}

\* the mapping that is the sum of the recorded sizes over the shards shs
IsSumOver(mm, shs) ==
    /\ DOMAIN mm \subseteq PrefixUniverse(bucket)
    /\ \A P \in PrefixUniverse(bucket) :
         IF \E sh \in shs : HoldsPrefix(snap[sh], bucket, P)
         THEN P \in DOMAIN mm /\ mm[P] = SumShards(shs, bucket, P)
         ELSE P \notin DOMAIN mm

\* C1: the returned value of every prefix P is the sum of the sizes recorded
\* for P by exactly the shards whose snapshot loaded and whose tree holds the
\* bucket's root and P; a prefix that no such shard holds is not a key.
C1_AggregationAdditivity ==
    (AggReturned /\ Sharded) =>
        /\ \A P \in PrefixUniverse(bucket) :
             LET holders == {sh \in Contributing : HoldsPrefix(snap[sh], bucket, P)}
             IN IF holders = {} THEN P \notin DOMAIN aggRet.m
                ELSE P \in DOMAIN aggRet.m /\ aggRet.m[P] = SumShards(holders, bucket, P)
        /\ DOMAIN aggRet.m \subseteq PrefixUniverse(bucket)

\* two shards hold the same prefix, a third one loaded and lacks it
C1_Witness ==
    /\ AggReturned /\ Sharded
    /\ \E s1, s2, s3 \in Contributing :
         /\ s1 # s2
         /\ HoldsPrefix(snap[s1], bucket, <<"x">>)
         /\ HoldsPrefix(snap[s2], bucket, <<"x">>)
         /\ ~HoldsPrefix(snap[s3], bucket, <<"x">>)

\* the shards whose load failed or gave no root for the bucket
FailedShards ==
    {sh \in Shards : \/ snap[sh].kind \in {"absent", "corrupt"}
                     \/ loadRes[sh] # "nil"
                     \/ ~HasRoot(snap[sh], bucket)}

\* C2: whatever shards fail to load or have no root for the bucket, the call
\* attempts every shard of every pool in order, returns a nil error and returns
\* the sum over the remaining shards.
C2_ShardFailureTolerance ==
    (AggReturned /\ Sharded) =>
        /\ visitLog = ShardOrder
        /\ aggRet.err = "nil"
        /\ IsSumOver(aggRet.m, Shards \ FailedShards)

\* a shard with a tree is visited after a shard whose snapshot does not decode
C2_Witness ==
    /\ AggReturned /\ Sharded /\ ~ctxDone
    /\ snap[ShardOrder[1]].kind = "tree" /\ HasRoot(snap[ShardOrder[1]], bucket)
    /\ snap[ShardOrder[2]].kind = "corrupt"
    /\ HasRoot(snap[ShardOrder[3]], bucket)
    /\ Shards \ FailedShards # {}
    /\ FailedShards # {}

\* the shards that hold a decodable snapshot with the bucket's root
HoldingShards == {sh \in Shards : HasRoot(snap[sh], bucket)}

\* C3: a call whose context was cancelled while it iterated returns the
\* complete result or a non-nil error.
C3_CancelNeverSilentlyPartial ==
    (AggReturned /\ Sharded /\ ctxDone) =>
        \/ aggRet.err # "nil"
        \/ IsSumOver(aggRet.m, HoldingShards)

\* the example: one shard holds {bucket/x: 100, bucket/y: 50}, one holds
\* {bucket/x: 20}, every other shard holds no snapshot
ExampleShards ==
    \E sa, sb \in Shards :
        /\ sa # sb
        /\ snap[sa] = Stored(TreeA(bucket))
        /\ snap[sb] = Stored(TreeB(bucket))
        /\ \A sh \in Shards \ {sa, sb} : snap[sh] = Absent

ExampleResult == (<<"x">> :> 120) @@ (<<"y">> :> 50)

\* the identifiers that were added to the result
ContributingIds == UNION {DescIds(snap[sh], bucket) : sh \in Contributing}

C5_NonShardedBackend ==
    (objAPI = "FSObjects" /\ aggPc # "idle") =>
        /\ AggReturned
        /\ aggRet.m = << >>
        /\ aggRet.err = "nil"
        /\ visitLog = << >>
        /\ \A sh \in Shards : loadRes[sh] = "unvisited"

\* the call returned on a backend whose shards do hold usage for the bucket
C5_Witness ==
    /\ objAPI = "FSObjects" /\ AggReturned
    /\ \E sh \in Shards : HasRoot(snap[sh], bucket)

-----------------------------------------------------------------------------
(* Properties of storeDataUsageInBackend *)

ReportsOf(log) == [i \in 1..Len(log) |-> log[i].report]

\* the report the loop body is working on
InFlight == IF ingPc \in {"marshal", "reader", "put"} THEN <<dataUsageInfo>> ELSE << >>

PrepareFailed(e) == e.res \in {"MarshalFailed", "NewReaderFailed"}
ReachedPut(e) == ~PrepareFailed(e)

\* the payloads of the entries of log that reached PutObject
PayloadsOf(log) ==
    LET reached == SelectSeq(log, ReachedPut)
    IN [i \in 1..Len(reached) |-> Marshal(reached[i].report)]

\* C6 as claimed: once the input is closed and the loop has ended, the report
\* object was written exactly once per report sent, in the order sent.
C6_OneWritePerReport ==
    ingPc = "exit" => putLog = [i \in 1..Len(sentLog) |-> Marshal(sentLog[i])]

\* C6 as amended: the loop body runs exactly once per report, in the order
\* received; every report whose serialization and reader construction succeed
\* is written by exactly one PutObject call, in that order; a report whose
\* serialization or reader construction fails is not written.
C6_OneStorePerReport ==
    /\ ReportsOf(storeLog) \o InFlight \o dui = sentLog
    /\ putLog = PayloadsOf(storeLog)
    /\ ingPc = "exit" => Len(storeLog) = Len(sentLog)

\* the loop ended after a report that failed to serialize and one that was written
C6_Witness ==
    /\ ingPc = "exit"
    /\ Len(sentLog) >= 2
    /\ \E i, j \in 1..Len(storeLog) :
         storeLog[i].res = "MarshalFailed" /\ storeLog[j].res = "nil"

\* C7: the loop ends only when the channel is closed and drained, whatever
\* failed before and whether or not the context is cancelled; every report
\* sent is eventually handled and, once the channel is closed, the loop
\* eventually ends; after it ended nothing is written.
C7_IngestionTermination ==
    /\ [](ingPc = "exit" => (duiClosed /\ dui = << >> /\ Len(storeLog) = Len(sentLog)))
    /\ [][ingPc = "exit" => (ingPc' = "exit" /\ putLog' = putLog /\ obj' = obj)]_vars
    /\ \A n \in 1..(MaxReports + 1) : (Len(sentLog) >= n) ~> (Len(storeLog) >= n)
    /\ duiClosed ~> (ingPc = "exit")

\* the loop ended although a store failed and the context was cancelled
C7_Witness ==
    /\ ingPc = "exit"
    /\ storeCtxDone
    /\ \E i, j \in 1..Len(storeLog) :
         /\ i < j
         /\ storeLog[i].res \in {"MarshalFailed", "WriteFailed", "canceled"}
         /\ storeLog[j].res = "nil"

\* C8: a report whose handling failed is handed to PutObject at most once, is
\* handled once only, is not what the report object holds, and does not stop
\* the loop: the reports after it are handled in order, and a later write
\* that succeeds is what the object holds.
C8_FailedStoreNotFatalNotRetried ==
    /\ \A i \in 1..Len(storeLog) :
         storeLog[i].res # "nil" =>
            /\ Cardinality({j \in 1..Len(putLog) :
                              putLog[j] = Marshal(storeLog[i].report)}) <= 1
            /\ \A j \in 1..Len(storeLog) :
                  j # i => storeLog[j].report # storeLog[i].report
            /\ obj # Bytes(Marshal(storeLog[i].report))
            /\ ingPc = "exit" => (duiClosed /\ Len(storeLog) = Len(sentLog))
            /\ SubSeq(sentLog, 1, Len(storeLog)) = ReportsOf(storeLog)
    /\ (storeLog # << >> /\ storeLog[Len(storeLog)].res = "nil") =>
          obj = Bytes(Marshal(storeLog[Len(storeLog)].report))

\* a report was written after the stores of two earlier reports had failed,
\* one of them for the missing bucket
C8_Witness ==
    \E i, j, k \in 1..Len(storeLog) :
        /\ i < k /\ j < k
        /\ storeLog[i].res = "BucketNotFound"
        /\ storeLog[j].res \in {"WriteFailed", "NewReaderFailed"}
        /\ storeLog[k].res = "nil"
        /\ obj = Bytes(Marshal(storeLog[k].report))

\* the index of the last entry of log whose write succeeded, 0 without one
RECURSIVE LastOk(_)
LastOk(log) ==
    IF log = << >> THEN 0
    ELSE IF log[Len(log)].res = "nil" THEN Len(log)
    ELSE LastOk(SubSeq(log, 1, Len(log) - 1))

AllWritten(log) == \A i \in 1..Len(log) : log[i].res = "nil"

\* the report returned by a load is the stored report r, migrated
LoadedFrom(r) ==
    /\ loadRet.err = "nil"
    /\ loadRet.report.LastUpdate = r.LastUpdate
    /\ loadRet.report.ObjectsTotalSize = r.ObjectsTotalSize
    /\ r.BucketsUsage # << >> => loadRet.report.BucketsUsage = r.BucketsUsage
    /\ r.BucketSizes # << >> => loadRet.report.BucketSizes = r.BucketSizes

\* C9: the report object holds the whole serialization of the last received
\* report whose write succeeded (what was there before, as long as no write
\* succeeded; the last report received, when every write succeeded), and a
\* load that reads the object returns that report.
C9_LastWriteWins ==
    /\ LET k == LastOk(storeLog)
       IN IF k = 0
          THEN obj = NoObject \/ (obj.kind = "json" /\ obj.doc.lastUpdate = 0)
          ELSE /\ obj = Bytes(Marshal(storeLog[k].report))
               /\ Decode(obj.doc) = storeLog[k].report
    /\ (ingPc = "exit" /\ sentLog # << >> /\ AllWritten(storeLog)) =>
          obj = Bytes(Marshal(sentLog[Len(sentLog)]))
    /\ (loadRet.set /\ loadRead = "nil") =>
          LET k == LastOk(SubSeq(storeLog, 1, loadSeq))
          IN k > 0 => LoadedFrom(storeLog[k].report)

\* a load returned the report written second, after the write of a third failed
C9_Witness ==
    /\ loadRet.set /\ loadRead = "nil"
    /\ loadSeq >= 3
    /\ LastOk(SubSeq(storeLog, 1, loadSeq)) = 2
    /\ storeLog[1].res = "nil"
    /\ storeLog[3].res = "WriteFailed"
    /\ loadRet.report.LastUpdate = 2

-----------------------------------------------------------------------------
(* Properties of loadDataUsageFromBackend *)

\* C10: when the read fails with object not found or bucket not found, the
\* call returns the zero-valued report and a nil error without looking any
\* replication configuration up; any other read failure is returned as an
\* error.
C10_AbsenceNormalization ==
    loadRet.set =>
        /\ loadRead \in {"ObjectNotFound", "BucketNotFound"} =>
              /\ loadRet.report = ZeroReport
              /\ loadRet.err = "nil"
              /\ cfgLookups = {}
        /\ loadRead \notin {"nil", "ObjectNotFound", "BucketNotFound"} =>
              loadRet.err # "nil"

\* a load found the reserved bucket missing
C10_Witness ==
    /\ loadRet.set
    /\ loadRead = "BucketNotFound"
    /\ loadRet.err = "nil"

\* the report that is stored, as decoded
StoredReport == Decode(obj.doc)

\* the last call read and decoded the stored report
LoadDecoded == loadRet.set /\ loadRead = "nil" /\ obj.kind = "json"

\* the last call returned the stored report, migrated
LoadedOk == LoadDecoded /\ loadRet.err = "nil"

LegacyOnly(r) == r.BucketsUsage = << >> /\ r.BucketSizes # << >>
NewerOnly(r) == r.BucketSizes = << >> /\ r.BucketsUsage # << >>

\* C11: a stored report with only BucketSizes populated is returned with one
\* BucketsUsage entry per bucket of BucketSizes, its Size the legacy size and
\* every other field zero; a stored report with only BucketsUsage populated is
\* returned with one BucketSizes entry per bucket, equal to the bucket's Size.
C11_PerBucketMigration ==
    /\ (LoadDecoded /\ LegacyOnly(StoredReport)) =>
          /\ loadRet.err = "nil"
          /\ DOMAIN loadRet.report.BucketsUsage = DOMAIN StoredReport.BucketSizes
          /\ \A b \in DOMAIN StoredReport.BucketSizes :
                loadRet.report.BucketsUsage[b] =
                    [ZeroBucketUsage EXCEPT !.Size = StoredReport.BucketSizes[b]]
    /\ (LoadedOk /\ NewerOnly(StoredReport)) =>
          /\ DOMAIN loadRet.report.BucketSizes = DOMAIN StoredReport.BucketsUsage
          /\ \A b \in DOMAIN StoredReport.BucketsUsage :
                loadRet.report.BucketSizes[b] = StoredReport.BucketsUsage[b].Size

\* a report with the legacy sizes of two buckets only was loaded
C11_Witness ==
    /\ LoadedOk
    /\ LegacyOnly(StoredReport)
    /\ DOMAIN StoredReport.BucketSizes = {"b", "c"}
    /\ DOMAIN loadRet.report.BucketsUsage = {"b", "c"}

\* some legacy single-target replication counter of the bucket is not zero
AnyLegacyCounter(bui) ==
    \/ bui.ReplicatedSizeV1 # 0
    \/ bui.ReplicationFailedSizeV1 # 0
    \/ bui.ReplicationFailedCountV1 # 0
    \/ bui.ReplicationPendingSizeV1 # 0
    \/ bui.ReplicationPendingCountV1 # 0

\* the five counters of the per-target entry t are the legacy counters of bui
CarriesLegacy(t, bui) ==
    /\ t.ReplicatedSize = bui.ReplicatedSizeV1
    /\ t.ReplicationFailedSize = bui.ReplicationFailedSizeV1
    /\ t.ReplicationFailedCount = bui.ReplicationFailedCountV1
    /\ t.ReplicationPendingSize = bui.ReplicationPendingSizeV1
    /\ t.ReplicationPendingCount = bui.ReplicationPendingCountV1

\* the returned report has the per-target entry of bucket b of the stored report
HasMigratedEntry(b) ==
    /\ replCfg[b] # ConfigErr
    /\ replCfg[b].RoleArn \in DOMAIN loadRet.report.ReplicationInfo
    /\ CarriesLegacy(loadRet.report.ReplicationInfo[replCfg[b].RoleArn],
                     StoredReport.BucketsUsage[b])

\* C12: when the only bucket of the stored report has a legacy replication
\* counter that is not zero (any of the five, the pending size alone too), the
\* returned report has the entry of the bucket's target ARN with the bucket's
\* five legacy counters.
C12_ReplicationMigration ==
    (LoadedOk /\ DOMAIN StoredReport.BucketsUsage = {"b"}
        /\ AnyLegacyCounter(StoredReport.BucketsUsage["b"])) =>
            HasMigratedEntry("b")

\* a bucket of the stored report for which the configuration was looked up and
\* the lookup failed
FailedLookups == {b \in cfgLookups : replCfg[b] = ConfigErr}

\* the buckets of the stored report with a legacy counter that is not zero
LegacyBuckets ==
    {b \in DOMAIN StoredReport.BucketsUsage :
        AnyLegacyCounter(StoredReport.BucketsUsage[b])}

\* the buckets of the stored report with one of the counters of lines 129-130
CheckedBuckets ==
    {b \in DOMAIN StoredReport.BucketsUsage :
        LET bui == StoredReport.BucketsUsage[b]
        IN \/ bui.ReplicatedSizeV1 # 0
           \/ bui.ReplicationFailedCountV1 # 0
           \/ bui.ReplicationFailedSizeV1 # 0
           \/ bui.ReplicationPendingCountV1 # 0}

\* C13: a failed lookup of the replication configuration makes the load return
\* an error and the zero report, never a partly migrated one; the configuration
\* is looked up for buckets with non-zero legacy counters only, and a report
\* with no such bucket loads without error though every lookup would fail.
C13_LookupFailureAborts ==
    LoadDecoded =>
        /\ (FailedLookups # {} \/ \E b \in CheckedBuckets : replCfg[b] = ConfigErr)
              => (loadRet.err # "nil" /\ loadRet.report = ZeroReport)
        /\ cfgLookups \subseteq LegacyBuckets
        /\ LegacyBuckets = {} => (loadRet.err = "nil" /\ cfgLookups = {})

\* the lookup failed for the second of two buckets with legacy counters, after
\* the first one was migrated
C13_Witness ==
    /\ LoadDecoded
    /\ cfgLookups = {"b", "c"}
    /\ Cardinality(FailedLookups) = 1
    /\ loadRet.err = "ConfigLookupFailed"
    /\ loadRet.report = ZeroReport

\* a report with no legacy counters was loaded while every lookup would fail
C13_WitnessNoLookup ==
    /\ LoadedOk
    /\ DOMAIN StoredReport.BucketsUsage = {"b", "c"}
    /\ LegacyBuckets = {}
    /\ \A b \in {"b", "c"} : replCfg[b] = ConfigErr

\* C14: when several buckets of the stored report have non-zero legacy
\* counters and distinct target ARNs, the returned report has the per-target
\* entry of each of them; no entry is lost to the migration of another bucket.
C14_EveryBucketMigrated ==
    (LoadedOk /\ Cardinality(CheckedBuckets) > 1
        /\ \A b, c \in CheckedBuckets : b # c => replCfg[b] # replCfg[c]) =>
            \A b \in CheckedBuckets : HasMigratedEntry(b)

\* the two per-bucket representations of report r agree
Derivable(r) ==
    /\ DOMAIN r.BucketSizes = DOMAIN r.BucketsUsage
    /\ \A b \in DOMAIN r.BucketsUsage : r.BucketSizes[b] = r.BucketsUsage[b].Size

\* C15 (as stated): whichever per-bucket representations the stored report
\* has, a successful load returns BucketSizes and BucketsUsage over the same
\* buckets with BucketSizes[b] = BucketsUsage[b].Size.
C15_MutuallyDerivable == LoadedOk => Derivable(loadRet.report)

\* C15 (amended): a successful load returns BucketSizes and BucketsUsage over
\* the same buckets with BucketSizes[b] = BucketsUsage[b].Size when the stored
\* report has at most one of the two populated or has them agreeing; when both
\* are populated they are returned as stored.
C15_DerivableWhenFilled ==
    LoadedOk =>
        /\ (StoredReport.BucketsUsage = << >> \/ StoredReport.BucketSizes = << >>
               \/ Derivable(StoredReport)) => Derivable(loadRet.report)
        /\ (StoredReport.BucketsUsage # << >> /\ StoredReport.BucketSizes # << >>) =>
              /\ loadRet.report.BucketsUsage = StoredReport.BucketsUsage
              /\ loadRet.report.BucketSizes = StoredReport.BucketSizes

\* a report with the BucketsUsage of two buckets only was loaded
C15_Witness ==
    /\ LoadedOk
    /\ NewerOnly(StoredReport)
    /\ DOMAIN loadRet.report.BucketSizes = {"b", "c"}
    /\ loadRet.report.BucketSizes["b"] # loadRet.report.BucketSizes["c"]

\* C16: migrating the returned report again leaves it as it is, the per-target
\* entries of the stored report are in the returned report, and every load of
\* the same object under the same replication configuration returns the same.
C16_IdempotentRepeatable ==
    LoadedOk =>
        /\ \A o \in RangeOrders(DOMAIN loadRet.report.BucketsUsage) :
              Migrate(loadRet.report, replCfg, o).report = loadRet.report
        /\ \A a \in DOMAIN StoredReport.ReplicationInfo :
              /\ a \in DOMAIN loadRet.report.ReplicationInfo
              /\ loadRet.report.ReplicationInfo[a] = StoredReport.ReplicationInfo[a]
        /\ \A out \in LoadOutcomes(loadRead, obj, replCfg) :
              out.report = loadRet.report /\ out.err = loadRet.err

SizeAt(mm, P) == IF P \in DOMAIN mm THEN mm[P] ELSE 0

\* C18: the visit of a shard adds to every prefix the size recorded by the tree
\* loaded for that shard, once, and adds nothing when the load gave no tree
\* (no snapshot, or a failed load), whatever the shard visited before left in
\* the cache variable.
C18_ShardCountedOnce ==
    [][visitLog' # visitLog =>
          LET er == visitLog'[Len(visitLog')]
          IN /\ visitLog' = Append(visitLog, er)
             /\ er \notin Range(visitLog)
             /\ \A P \in PrefixUniverse(bucket) :
                   SizeAt(m', P) - SizeAt(m, P) =
                       IF loadRes'[er] = "nil"
                       THEN RecordedSize(snap[er], bucket, P)
                       ELSE 0
             /\ DOMAIN m' \subseteq PrefixUniverse(bucket)]_vars

\* a shard whose tree was added is followed by a shard whose load failed and
\* by a shard without snapshot
C18_Witness ==
    /\ AggReturned /\ objAPI = "erasureServerPools"
    /\ visitLog = ShardOrder
    /\ HasRoot(snap[ShardOrder[1]], bucket) /\ loadRes[ShardOrder[1]] = "nil"
    /\ snap[ShardOrder[2]].kind = "corrupt" /\ loadRes[ShardOrder[2]] # "nil"
    /\ snap[ShardOrder[3]] = Absent /\ loadRes[ShardOrder[3]] = "nil"
    /\ \A P \in DOMAIN m : m[P] = RecordedSize(snap[ShardOrder[1]], bucket, P)
    /\ m # << >>

\* the reports received from the channel whose handling has not ended
Pending == Len(sentLog) - Len(dui) - Len(storeLog)

\* C19: the consumer holds one report at most, a write of the report object is
\* of the report held, and a report is received only when the handling (the
\* write) of every report received before has ended.
C19_WritesNeverConcurrent ==
    /\ [](/\ Pending \in {0, 1}
          /\ Pending = 1 <=> ingPc \in {"marshal", "reader", "put"})
    /\ [][/\ (dui # << >> /\ dui' = Tail(dui) /\ sentLog' = sentLog) =>
                /\ ingPc = "recv"
                /\ Len(storeLog) = Len(sentLog) - Len(dui)
                /\ dataUsageInfo' = sentLog[Len(storeLog) + 1]
          /\ (putLog' # putLog) =>
                /\ ingPc = "put" /\ ingPc' # "put"
                /\ putLog' = Append(putLog, Marshal(dataUsageInfo))
                /\ dataUsageInfo = sentLog[Len(storeLog) + 1]
                /\ Len(storeLog') = Len(storeLog) + 1]_vars

\* a write is about to happen after an earlier write ended, while the next
\* report waits in the channel
C19_Witness ==
    /\ ingPc = "put"
    /\ Len(putLog) >= 1
    /\ dui # << >>
    /\ Len(sentLog) = 3

\* C20: every return of the load is a report with no error or the zero report
\* with an error; an object that does not decode gives the zero report with an
\* error.
C20_AllOrNothing ==
    loadRet.set =>
        /\ loadRet.err = "nil" \/ loadRet.report = ZeroReport
        /\ (loadRead = "nil" /\ obj.kind # "json") =>
              (loadRet.err # "nil" /\ loadRet.report = ZeroReport)
        /\ loadRead \notin {"nil", "ObjectNotFound", "BucketNotFound"} =>
              (loadRet.err # "nil" /\ loadRet.report = ZeroReport)

\* the object read did not decode
C20_Witness ==
    /\ loadRet.set
    /\ loadRead = "nil"
    /\ obj = Garbage
    /\ loadRet.err = "DecodeFailed"
    /\ loadRet.report = ZeroReport

====
